---- MODULE Spec2Model ----
(***************************************************************************)
(* A model of the crawl / ingest / chat script (src/index.js and its       *)
(* configured copy src/unnamed/part_000).                                  *)
(*                                                                         *)
(* Strings are sequences of tokens.  A URL string is a sequence            *)
(*   <<scheme, "//", host token(s), path token(s)>>,                       *)
(* page text is a sequence of one-character tokens, " " being whitespace.  *)
(* JavaScript's undefined / null is the one-token string Undefined.        *)
(***************************************************************************)
EXTENDS Integers, Sequences, FiniteSets, TLC

\* ------------------------------------------------------------------ bounds
\* Longest text handed to chunkText when it is examined on its own.
MaxTextLen == 4
\* Largest chunk size handed to chunkText when it is examined on its own.
MaxChunkSize == 3
\* Most anchors on one page.
MaxAnchors == 2
\* The chunk size crawl passes to chunkText: 1000 in the source (index.js:116),
\* scaled down so that a page body of a few words spans several chunks.
CrawlChunkSize == 2

\* ------------------------------------------------------------ JS values
Undefined == <<"<undefined>">>

\* JavaScript's !x for a string-or-undefined x.
Falsy(x) == x = Undefined \/ x = <<>>

IsPrefix(p, s) == Len(p) <= Len(s) /\ SubSeq(s, 1, Len(p)) = p

Min(a, b) == IF a < b THEN a ELSE b

\* Array.prototype.slice(from, to) with 0-based from, exclusive to.
Slice(arr, from, to) == SubSeq(arr, from + 1, Min(to, Len(arr)))

\* --------------------------------------------------------- configuration
BASE_URL == <<"https:", "//", "piyushgarg.dev">>
BASE_DOMAIN == <<"piyushgarg.dev">>

\* ----------------------------------------------------------------- URLs
Schemes == {"https:", "http:"}
HostToks == {"piyushgarg.dev", ".evil.com", "other.example"}
PathToks == {"/", "/a", "/b", "/c", "/x"}

RECURSIVE HostLen(_, _)
\* Number of host tokens of s from position i on.
HostLen(s, i) ==
    IF i <= Len(s) /\ s[i] \in HostToks THEN 1 + HostLen(s, i + 1) ELSE 0

\* What new URL(...) gives when the constructor throws (TypeError: Invalid URL).
InvalidURL == [valid |-> FALSE]

\* new URL(s) for an absolute s: the parsed record, or InvalidURL.
ParseAbsolute(s) ==
    IF Len(s) >= 3 /\ s[1] \in Schemes /\ s[2] = "//" /\ HostLen(s, 3) > 0
    THEN LET h == HostLen(s, 3)
             rest == SubSeq(s, 3 + h, Len(s))
         IN IF \A i \in 1..Len(rest) : rest[i] \in PathToks
            THEN [valid |-> TRUE, scheme |-> s[1],
                  hostname |-> SubSeq(s, 3, 2 + h), pathname |-> rest]
            ELSE InvalidURL
    ELSE InvalidURL

\* new URL(link, base): an absolute link stands alone, a path is taken
\* on base's origin, anything else is invalid.
NewURL(link, base) ==
    IF Len(link) > 0 /\ link[1] \in Schemes THEN ParseAbsolute(link)
    ELSE IF Len(link) > 0 /\ link[1] \in PathToks
              /\ ParseAbsolute(base).valid
              /\ \A i \in 1..Len(link) : link[i] \in PathToks
         THEN [ParseAbsolute(base) EXCEPT !.pathname = link]
         ELSE InvalidURL

\* URL.prototype.href: the serialisation; an empty path is written "/".
Href(u) ==
    <<u.scheme, "//">> \o u.hostname
        \o (IF u.pathname = <<>> THEN <<"/">> ELSE u.pathname)

\* ------------------------------------------------------------ chunkText
Whitespace == {" ", "\n"}
IsSpace(c) == c \in Whitespace

RECURSIVE SplitFrom(_, _, _, _, _)
\* String.prototype.split(/\s+/): every maximal run of whitespace is one
\* separator, so a text that starts (ends) with whitespace yields a leading
\* (trailing) empty token.  cur is the token being read, acc the tokens
\* already closed, inRun whether position i - 1 was whitespace.
SplitFrom(text, i, cur, acc, inRun) ==
    IF i > Len(text) THEN Append(acc, cur)
    ELSE IF IsSpace(text[i])
         THEN IF inRun THEN SplitFrom(text, i + 1, cur, acc, TRUE)
              ELSE SplitFrom(text, i + 1, <<>>, Append(acc, cur), TRUE)
         ELSE SplitFrom(text, i + 1, Append(cur, text[i]), acc, FALSE)

SplitWhitespace(text) == SplitFrom(text, 1, <<>>, <<>>, FALSE)

RECURSIVE Join(_)
\* Array.prototype.join(" ").
Join(words) ==
    IF words = <<>> THEN <<>>
    ELSE IF Len(words) = 1 THEN words[1]
    ELSE words[1] \o <<" ">> \o Join(Tail(words))

\* A guard that tests the size alone.
ChunkGuard_SizeOnly(text, chunkSize) == chunkSize <= 0

\* The guard of chunkText: no chunking for a falsy text or a size <= 0.
ChunkGuard(text, chunkSize) == Falsy(text) \/ chunkSize <= 0

\* The words chunkText groups: the tokens of the split, as they come.
ChunkWords(text) == SplitWhitespace(text)

RECURSIVE ChunkLoop(_, _, _, _)
\* for (let i = 0; i < words.length; i += chunkSize) chunks.push(...)
ChunkLoop(words, i, chunkSize, chunks) ==
    IF i < Len(words)
    THEN ChunkLoop(words, i + chunkSize, chunkSize,
                   Append(chunks, Join(Slice(words, i, i + chunkSize))))
    ELSE chunks

chunkText(text, chunkSize) ==
    IF ChunkGuard(text, chunkSize) THEN <<>>
    ELSE ChunkLoop(ChunkWords(text), 0, chunkSize, <<>>)

\* --------------------------------------------------------- scrapeWebpage
Frags == {"#top"}

\* Set.prototype.add on a set kept in insertion order.
SetAdd(s, x) == IF \E i \in 1..Len(s) : s[i] = x THEN s ELSE Append(s, x)

\* The early return of the anchor callback: no href, "/", or a fragment.
SkipHref(link) == Falsy(link) \/ link = <<"/">> \/ link[1] \in Frags

\* A scope test that compares the hostname alone.
InScope_HostOnly(resolvedUrl) ==
    /\ ParseAbsolute(resolvedUrl).valid
    /\ ParseAbsolute(resolvedUrl).hostname = BASE_DOMAIN

\* The scope test on a resolved URL string.
InScope(resolvedUrl) ==
    /\ ParseAbsolute(resolvedUrl).valid
    /\ ParseAbsolute(resolvedUrl).hostname = BASE_DOMAIN
    /\ IsPrefix(BASE_URL, resolvedUrl)

\* One run of the $("a").each callback: internalLinks after anchor `link`
\* of the page at `url`.  A link whose resolution throws is skipped (catch).
EachAnchor(internalLinks, link, url) ==
    IF SkipHref(link) THEN internalLinks
    ELSE IF ~NewURL(link, url).valid THEN internalLinks
    ELSE LET resolvedUrl == Href(NewURL(link, url))
         IN IF InScope(resolvedUrl) THEN SetAdd(internalLinks, resolvedUrl)
            ELSE internalLinks

\* An anchor loop that a link whose resolution throws brings to an end.
RECURSIVE ScrapeFrom_StopsAtInvalid(_, _, _, _)
ScrapeFrom_StopsAtInvalid(anchors, i, url, internalLinks) ==
    IF i > Len(anchors) THEN internalLinks
    ELSE IF ~SkipHref(anchors[i]) /\ ~NewURL(anchors[i], url).valid THEN internalLinks
    ELSE ScrapeFrom_StopsAtInvalid(anchors, i + 1, url,
                                   EachAnchor(internalLinks, anchors[i], url))

\* The $("a").each loop from anchor i on.
RECURSIVE ScrapeFrom(_, _, _, _)
ScrapeFrom(anchors, i, url, internalLinks) ==
    IF i > Len(anchors) THEN internalLinks
    ELSE ScrapeFrom(anchors, i + 1, url, EachAnchor(internalLinks, anchors[i], url))

\* Some anchor of the page made new URL throw into the catch of the callback.
AnyThrows(anchors, url) ==
    \E i \in 1..Len(anchors) : ~SkipHref(anchors[i]) /\ ~NewURL(anchors[i], url).valid

\* internalLinks as scrapeWebpage returns it: Array.from(the set).
ScrapeLinks(anchors, url) == ScrapeFrom(anchors, 1, url, <<>>)

\* ---------------------------------------------------------------- state
VARIABLES
    web,        \* the site crawled: the hrefs its pages may carry, their contents
    main,       \* position of the top-level script
    visited,    \* crawl's visited set
    stack,      \* the pending crawl calls, the root call first; the last one runs
    crawlState, \* the promise of the root crawl call
    nodes,      \* the TreeNode objects in creation order: url and parent node
    db,         \* the records added to the collection, in order
    crawlLog,   \* the network operations of crawl: started, ended, failed
    scraped,    \* the page scrapeWebpage returned last: its url, anchors, links
    pages,      \* every page scrapeWebpage returned: url, head, body, links
    chatPc,     \* where chat is suspended
    chatOut,    \* what chat printed: console.log / console.error
    chatLog,    \* the network requests chat sent
    chatView,   \* what chat was answered: by the embedding, by the index query
    text, size, chunks, chunkPc   \* chunkText called on its own

crawlVars == <<visited, stack, crawlState, nodes, db, crawlLog, scraped, pages>>
chatVars == <<chatPc, chatOut, chatLog, chatView>>
chunkVars == <<text, size, chunks, chunkPc>>
vars == <<web, main, crawlVars, chatVars, chunkVars>>

\* ---------------------------------------------------------------- inputs
\* The href attribute values an anchor may carry.
Hrefs ==
    { Undefined,                                                \* no href
      <<>>,                                                     \* href=""
      <<"/">>,
      <<"#top">>,
      <<"/a">>,
      <<"/b">>,
      <<"https:", "//", "piyushgarg.dev", "/a">>,
      <<"https:", "//", "piyushgarg.dev">>,                     \* resolves to ".../"
      <<"https:", "//", "other.example", "/x">>,                \* another host
      <<"http:", "//", "piyushgarg.dev", "/a">>,                \* host, not prefix
      <<"https:", "//", "piyushgarg.dev", ".evil.com", "/x">>,  \* prefix, not host
      <<"https:", "//">> }                                      \* Invalid URL

\* The hrefs of a site of two pages under the root, which may link to each
\* other, to themselves, and twice to the same page.
SiteHrefs == { <<"/a">>, <<"/b">> }

\* The hrefs of a site of one page under the root.
SmallSiteHrefs == { <<"/a">> }

AnchorLists(H) == UNION { [1..n -> H] : n \in 0..MaxAnchors }

\* What $("head").html() and $("body").html() give for a fetched page.
BodyText == <<"a", " ", "b", " ", "c">>
Contents ==
    { [head |-> Undefined, body |-> Undefined],
      [head |-> <<"h">>, body |-> BodyText] }

HrefsOf(url) == IF url = BASE_URL THEN web.rootHrefs ELSE web.pageHrefs

\* ---------------------------------------------------------------- crawl
Ev(ev, op, url, k) == [ev |-> ev, op |-> op, url |-> url, k |-> k]

\* A crawl call that has passed its visited check and awaits its fetch.
NewFrame(node, url) ==
    [node |-> node, url |-> url, pc |-> "fetch", head |-> Undefined,
     body |-> Undefined, emb |-> Undefined, chunks |-> <<>>, ci |-> 0,
     links |-> <<>>, li |-> 0]

Top(stk) == stk[Len(stk)]
Pop(stk) == SubSeq(stk, 1, Len(stk) - 1)
SetTop(stk, f) == [stk EXCEPT ![Len(stk)] = f]

\* A visited check that never finds the url.
HasVisited_Never(vis, url) == FALSE

\* visited.has(url)
HasVisited(vis, url) == url \in vis

\* A crawl that never adds to its visited set.
MarkVisited_Forgets(vis, url) == vis

\* visited.add(url)
MarkVisited(vis, url) == vis \cup {url}

\* A link loop without the check of the link: a TreeNode is made for every
\* link, and the call on a visited one returns at once.
RECURSIVE Resume_NoLinkCheck(_, _, _)
Resume_NoLinkCheck(stk, vis, nds) ==
    IF stk = <<>> THEN [stack |-> <<>>, nodes |-> nds, enter |-> FALSE]
    ELSE LET top == Top(stk)
             j == top.li + 1
         IN IF j > Len(top.links) THEN Resume_NoLinkCheck(Pop(stk), vis, nds)
            ELSE LET link == top.links[j]
                     stk1 == SetTop(stk, [top EXCEPT !.li = j, !.pc = "child"])
                     nds1 == Append(nds, [url |-> link, parent |-> top.node])
                 IN IF HasVisited(vis, link) THEN Resume_NoLinkCheck(stk1, vis, nds1)
                    ELSE [stack |-> Append(stk1, NewFrame(Len(nds1), link)),
                          nodes |-> nds1, enter |-> TRUE]

\* A link loop that a visited link ends (break for continue).
RECURSIVE Resume_StopsAtVisited(_, _, _)
Resume_StopsAtVisited(stk, vis, nds) ==
    IF stk = <<>> THEN [stack |-> <<>>, nodes |-> nds, enter |-> FALSE]
    ELSE LET top == Top(stk)
             j == top.li + 1
         IN IF j > Len(top.links) THEN Resume_StopsAtVisited(Pop(stk), vis, nds)
            ELSE LET link == top.links[j]
                     stk1 == SetTop(stk, [top EXCEPT !.li = j, !.pc = "child"])
                     nds1 == Append(nds, [url |-> link, parent |-> top.node])
                 IN IF HasVisited(vis, link)
                    THEN Resume_StopsAtVisited(Pop(stk), vis, nds)
                    ELSE [stack |-> Append(stk1, NewFrame(Len(nds1), link)),
                          nodes |-> nds1, enter |-> TRUE]

RECURSIVE Resume(_, _, _)
\* The loop over internalLinks of the running call, from the link after
\* top.li on, up to the next fetch: a link already visited is passed over;
\* for another a TreeNode is made and crawl is called on it, which returns
\* at once if its url is visited and else suspends in its fetch.  A call
\* whose loop ends returns, and the call awaiting it goes on with its loop.
Resume(stk, vis, nds) ==
    IF stk = <<>> THEN [stack |-> <<>>, nodes |-> nds, enter |-> FALSE]
    ELSE LET top == Top(stk)
             j == top.li + 1
         IN IF j > Len(top.links) THEN Resume(Pop(stk), vis, nds)
            ELSE LET link == top.links[j]
                     stk1 == SetTop(stk, [top EXCEPT !.li = j, !.pc = "child"])
                 IN IF HasVisited(vis, link) THEN Resume(stk1, vis, nds)
                    ELSE LET nds1 == Append(nds, [url |-> link, parent |-> top.node])
                         IN IF HasVisited(vis, link) THEN Resume(stk1, vis, nds1)
                            ELSE [stack |-> Append(stk1, NewFrame(Len(nds1), link)),
                                  nodes |-> nds1, enter |-> TRUE]

\* The running call has written its records (stk, log lg): its link loop
\* runs until a child call suspends in its fetch or the root call returns.
LinkLoop(stk, lg) ==
    LET r == Resume(stk, visited, nodes)
    IN /\ stack' = r.stack
       /\ nodes' = r.nodes
       /\ IF r.enter
          THEN /\ visited' = MarkVisited(visited, Top(r.stack).url)
               /\ crawlLog' = Append(lg, Ev("start", "fetch", Top(r.stack).url, 0))
               /\ crawlState' = "pending"
          ELSE /\ visited' = visited
               /\ crawlLog' = lg
               /\ crawlState' = "fulfilled"

\* A crawl whose link loop catches the failure of a child call.
OnFailure_CaughtInLoop(stk) == Pop(stk)

\* The calls left pending when the awaited operation of the running call
\* throws: crawl has no try, so every enclosing call is rejected in turn.
OnFailure(stk) == <<>>

\* The operation the running call awaits, as logged.
Awaited(f) ==
    CASE f.pc = "fetch" -> Ev("start", "fetch", f.url, 0)
      [] f.pc = "headEmbed" -> Ev("start", "embed", f.url, 0)
      [] f.pc = "headColl" -> Ev("start", "getOrCreateCollection", f.url, 0)
      [] f.pc = "headAdd" -> Ev("start", "add", f.url, 0)
      [] f.pc = "chunkEmbed" -> Ev("start", "embed", f.url, f.ci)
      [] f.pc = "chunkColl" -> Ev("start", "getOrCreateCollection", f.url, f.ci)
      [] f.pc = "chunkAdd" -> Ev("start", "add", f.url, f.ci)

Ended(f) == [Awaited(f) EXCEPT !.ev = "end"]
Failed(f) == [Awaited(f) EXCEPT !.ev = "fail"]

Running == crawlState = "pending" /\ stack # <<>>

\* The embedding generateVectorEmbeddings returns: response.embeddings[0],
\* a vector, or undefined when the response holds none.
Vec == <<"vec">>
Embeddings == {Vec, Undefined}

\* rootNode = new TreeNode(BASE_URL); crawl(rootNode): the call runs up to
\* its first await, the fetch of the root page, and is not awaited.
StartCrawl ==
    /\ main = "start"
    /\ main' = "crawlCalled"
    /\ nodes' = <<[url |-> BASE_URL, parent |-> 0]>>
    /\ IF HasVisited({}, BASE_URL)
       THEN /\ crawlState' = "fulfilled"
            /\ UNCHANGED <<visited, stack, crawlLog>>
       ELSE /\ visited' = MarkVisited({}, BASE_URL)
            /\ stack' = <<NewFrame(1, BASE_URL)>>
            /\ crawlLog' = <<Ev("start", "fetch", BASE_URL, 0)>>
            /\ crawlState' = "pending"
    /\ UNCHANGED <<web, db, scraped, pages, chatVars,
                   chunkVars>>

\* axios.get answers: scrapeWebpage parses the page and returns, and crawl
\* asks for the embedding of the head.
CrawlFetchDone ==
    /\ Running /\ Top(stack).pc = "fetch"
    /\ \E page \in web.contents, anchors \in AnchorLists(HrefsOf(Top(stack).url)) :
          LET f == Top(stack)
              links == ScrapeLinks(anchors, f.url)
          IN /\ scraped' = [url |-> f.url, anchors |-> anchors, links |-> links]
             /\ pages' = Append(pages, [url |-> f.url, head |-> page.head,
                                        body |-> page.body, links |-> links,
                                        threw |-> AnyThrows(anchors, f.url)])
             /\ stack' = SetTop(stack, [f EXCEPT !.pc = "headEmbed", !.head = page.head,
                                               !.body = page.body, !.links = links])
             /\ crawlLog' = crawlLog \o <<Ended(f), Ev("start", "embed", f.url, 0)>>
    /\ UNCHANGED <<web, main, visited, crawlState, nodes, db, chatVars, chunkVars>>

\* cohere.embed answers for the head: insertIntoDb asks for the collection.
CrawlHeadEmbedDone ==
    /\ Running /\ Top(stack).pc = "headEmbed"
    /\ \E e \in Embeddings :
          LET f == Top(stack)
          IN /\ stack' = SetTop(stack, [f EXCEPT !.pc = "headColl", !.emb = e])
             /\ crawlLog' = crawlLog \o
                    <<Ended(f), Ev("start", "getOrCreateCollection", f.url, 0)>>
    /\ UNCHANGED <<web, main, visited, crawlState, nodes, db, scraped, pages, chatVars,
                   chunkVars>>

\* getOrCreateCollection answers: insertIntoDb sends collection.add.
CrawlHeadCollDone ==
    /\ Running /\ Top(stack).pc = "headColl"
    /\ LET f == Top(stack)
       IN /\ stack' = SetTop(stack, [f EXCEPT !.pc = "headAdd"])
          /\ crawlLog' = crawlLog \o <<Ended(f), Ev("start", "add", f.url, 0)>>
    /\ UNCHANGED <<web, main, visited, crawlState, nodes, db, scraped, pages, chatVars,
                   chunkVars>>

\* The record insertIntoDb adds: ids [url], metadatas [{url, body, head}].
\* The vector itself is not kept: no operation of the script reads it back.
Record(url, embedding, body, head) ==
    [id |-> url, metadata |-> [url |-> url, body |-> body, head |-> head]]

\* A crawl that goes to its links before the chunks of the page.
NextChunkOrLinks_LinksFirst(f, lg) == LinkLoop(SetTop(stack, f), lg)

\* After a record of the running call f is written: the next chunk's
\* embedding is requested, or, when none is left, the link loop runs.
NextChunkOrLinks(f, lg) ==
    IF f.ci < Len(f.chunks)
    THEN /\ stack' = SetTop(stack, [f EXCEPT !.pc = "chunkEmbed", !.ci = f.ci + 1])
         /\ crawlLog' = Append(lg, Ev("start", "embed", f.url, f.ci + 1))
         /\ UNCHANGED <<visited, crawlState, nodes>>
    ELSE LinkLoop(SetTop(stack, f), lg)

\* collection.add answers for the head record (body "", no head): the
\* body is chunked.
CrawlHeadAddDone ==
    /\ Running /\ Top(stack).pc = "headAdd"
    /\ LET f == Top(stack)
           g == [f EXCEPT !.chunks = chunkText(f.body, CrawlChunkSize), !.ci = 0]
       IN /\ db' = Append(db, Record(f.url, f.emb, <<>>, Undefined))
          /\ NextChunkOrLinks(g, Append(crawlLog, Ended(f)))
    /\ UNCHANGED <<web, main, scraped, pages, chatVars,
                   chunkVars>>

\* cohere.embed answers for a chunk.
CrawlChunkEmbedDone ==
    /\ Running /\ Top(stack).pc = "chunkEmbed"
    /\ \E e \in Embeddings :
          LET f == Top(stack)
          IN /\ stack' = SetTop(stack, [f EXCEPT !.pc = "chunkColl", !.emb = e])
             /\ crawlLog' = crawlLog \o
                    <<Ended(f), Ev("start", "getOrCreateCollection", f.url, f.ci)>>
    /\ UNCHANGED <<web, main, visited, crawlState, nodes, db, scraped, pages, chatVars,
                   chunkVars>>

CrawlChunkCollDone ==
    /\ Running /\ Top(stack).pc = "chunkColl"
    /\ LET f == Top(stack)
       IN /\ stack' = SetTop(stack, [f EXCEPT !.pc = "chunkAdd"])
          /\ crawlLog' = crawlLog \o <<Ended(f), Ev("start", "add", f.url, f.ci)>>
    /\ UNCHANGED <<web, main, visited, crawlState, nodes, db, scraped, pages, chatVars,
                   chunkVars>>

\* collection.add answers for a chunk record.
CrawlChunkAddDone ==
    /\ Running /\ Top(stack).pc = "chunkAdd"
    /\ LET f == Top(stack)
       IN /\ db' = Append(db, Record(f.url, f.emb, f.chunks[f.ci], f.head))
          /\ NextChunkOrLinks(f, Append(crawlLog, Ended(f)))
    /\ UNCHANGED <<web, main, scraped, pages, chatVars,
                   chunkVars>>

\* The awaited operation of the running call throws (a network error, a
\* non-2xx status, a response without embeddings).
CrawlOpFails ==
    /\ Running
    /\ LET lg == Append(crawlLog, Failed(Top(stack)))
           stk == OnFailure(stack)
       IN IF stk = <<>>
          THEN /\ stack' = <<>>
               /\ crawlState' = "rejected"
               /\ crawlLog' = lg
               /\ UNCHANGED <<visited, nodes>>
          ELSE LinkLoop(stk, lg)
    /\ UNCHANGED <<web, main, db, scraped, pages, chatVars,
                   chunkVars>>

CrawlStep ==
    \/ CrawlFetchDone
    \/ CrawlHeadEmbedDone
    \/ CrawlHeadCollDone
    \/ CrawlHeadAddDone
    \/ CrawlChunkEmbedDone
    \/ CrawlChunkCollDone
    \/ CrawlChunkAddDone
    \/ CrawlOpFails

\* ----------------------------------------------------------------- chat
Question == <<"q">>

\* A query response: whether it has a metadatas field, and the field, one
\* list of metadata records per query embedding.
Response(present, metadatas) == [present |-> present, metadatas |-> metadatas]

\* What collection.query({nResults: 1, queryEmbeddings}) may answer for one
\* query embedding: the metadata of one stored record (which one is nearest
\* is not modelled), and, when nothing is stored, one empty list, no list,
\* or no field.
QueryResponses(records) ==
    IF records = <<>>
    THEN {Response(TRUE, << <<>> >>), Response(TRUE, <<>>), Response(FALSE, <<>>)}
    ELSE {Response(TRUE, << <<records[i].metadata>> >>) : i \in 1..Len(records)}

\* String.prototype.trim() !== ""
NonBlank(s) == \E i \in 1..Len(s) : ~IsSpace(s[i])

\* .filter((e) => e && e.trim() !== "")
RECURSIVE KeepNonBlank(_)
KeepNonBlank(list) ==
    IF list = <<>> THEN <<>>
    ELSE IF ~Falsy(list[1]) /\ NonBlank(list[1])
         THEN <<list[1]>> \o KeepNonBlank(Tail(list))
         ELSE KeepNonBlank(Tail(list))

RECURSIVE JoinComma(_)
\* Array.prototype.join(", ")
JoinComma(list) ==
    IF list = <<>> THEN <<>>
    ELSE IF Len(list) = 1 THEN list[1]
    ELSE list[1] \o <<", ">> \o JoinComma(Tail(list))

\* A prompt built from the urls and bodies as they come, blank ones too.
ChatPrompt_Unfiltered(question, metas) ==
    [query |-> question,
     url |-> JoinComma([i \in 1..Len(metas) |-> metas[i].url]),
     context |-> JoinComma([i \in 1..Len(metas) |-> metas[i].body])]

\* The three ${...} slots of the prompt template.
ChatPrompt(question, metas) ==
    [query |-> question,
     url |-> JoinComma(KeepNonBlank([i \in 1..Len(metas) |-> metas[i].url])),
     context |-> JoinComma(KeepNonBlank([i \in 1..Len(metas) |-> metas[i].body]))]

\* The no-result test: !metadatas || metadatas.length === 0
NoData(res) == ~res.present \/ Len(res.metadatas) = 0

\* response.message.content of the completion service.
Replies == { <<>>, <<"t1", "t2">> }

\* chat("question"): the call runs up to its first await, the embedding of
\* the question; the script ends.
StartChat ==
    /\ main = "crawlCalled"
    /\ main' = "done"
    /\ chatPc' = "embed"
    /\ chatLog' = <<[op |-> "embed", arg |-> Question]>>
    /\ UNCHANGED <<web, crawlVars, chatOut, chatView, chunkVars>>

\* cohere.embed answers for the question.
ChatEmbedDone ==
    /\ chatPc = "embed"
    /\ \E e \in Embeddings :
          IF Falsy(e)
          THEN /\ chatOut' = Append(chatOut, [level |-> "error", msg |-> <<"embeddings">>])
               /\ chatPc' = "returned"
               /\ chatView' = [chatView EXCEPT !.embedding = "nothing"]
               /\ UNCHANGED chatLog
          ELSE /\ chatPc' = "getOrCreateCollection"
               /\ chatLog' = Append(chatLog, [op |-> "getOrCreateCollection", arg |-> <<>>])
               /\ chatView' = [chatView EXCEPT !.embedding = "vector"]
               /\ UNCHANGED chatOut
    /\ UNCHANGED <<web, main, crawlVars, chunkVars>>

\* cohere.embed throws: the await stands before the try of chat.
ChatEmbedFails ==
    /\ chatPc = "embed"
    /\ chatPc' = "rejected"
    /\ chatView' = [chatView EXCEPT !.embedding = "threw"]
    /\ UNCHANGED <<web, main, crawlVars, chatOut, chatLog, chunkVars>>

\* getOrCreateCollection answers: the try is entered and the query sent.
ChatCollDone ==
    /\ chatPc = "getOrCreateCollection"
    /\ chatPc' = "query"
    /\ chatLog' = Append(chatLog, [op |-> "query", arg |-> <<>>])
    /\ UNCHANGED <<web, main, crawlVars, chatOut, chatView, chunkVars>>

\* getOrCreateCollection throws: this await, too, stands before the try.
ChatCollFails ==
    /\ chatPc = "getOrCreateCollection"
    /\ chatPc' = "rejected"
    /\ UNCHANGED <<web, main, crawlVars, chatOut, chatLog, chatView, chunkVars>>

\* collection.query answers.
ChatQueryDone ==
    /\ chatPc = "query"
    /\ \E res \in QueryResponses(db) :
          /\ chatView' = [chatView EXCEPT !.answered = TRUE, !.records = Len(db),
                                          !.response = res]
          /\ IF NoData(res)
             THEN /\ chatOut' = Append(chatOut, [level |-> "log", msg |-> <<"no data">>])
                  /\ chatPc' = "returned"
                  /\ UNCHANGED chatLog
             ELSE /\ chatPc' = "completion"
                  /\ chatLog' = Append(chatLog,
                         [op |-> "chat", arg |-> ChatPrompt(Question, res.metadatas[1])])
                  /\ UNCHANGED chatOut
    /\ UNCHANGED <<web, main, crawlVars, chunkVars>>

\* cohere.chat answers: the text of the first content item is printed; a
\* reply without content makes content[0].text throw inside the try.
ChatCompletionDone ==
    /\ chatPc = "completion"
    /\ \E reply \in Replies :
          /\ chatOut' = Append(chatOut,
                 IF reply = <<>> THEN [level |-> "error", msg |-> <<"query">>]
                 ELSE [level |-> "log", msg |-> <<reply[1]>>])
          /\ chatView' = [chatView EXCEPT !.replied = TRUE, !.reply = reply]
    /\ chatPc' = "returned"
    /\ UNCHANGED <<web, main, crawlVars, chatLog, chunkVars>>

\* collection.query or cohere.chat throws inside the try: the catch prints.
ChatTryFails ==
    /\ chatPc \in {"query", "completion"}
    /\ chatOut' = Append(chatOut, [level |-> "error", msg |-> <<"query">>])
    /\ chatPc' = "returned"
    /\ UNCHANGED <<web, main, crawlVars, chatLog, chatView, chunkVars>>

ChatStep ==
    \/ ChatEmbedDone
    \/ ChatEmbedFails
    \/ ChatCollDone
    \/ ChatCollFails
    \/ ChatQueryDone
    \/ ChatCompletionDone
    \/ ChatTryFails

\* ------------------------------------------------------- specifications
NoChunkCall ==
    text = Undefined /\ size = 0 /\ chunks = <<>> /\ chunkPc = "idle"

ProgramAtStart ==
    /\ main = "start"
    /\ visited = {}
    /\ stack = <<>>
    /\ crawlState = "none"
    /\ nodes = <<>>
    /\ db = <<>>
    /\ crawlLog = <<>>
    /\ scraped = [url |-> <<>>, anchors |-> <<>>, links |-> <<>>]
    /\ pages = <<>>
    /\ chatPc = "none"
    /\ chatOut = <<>>
    /\ chatLog = <<>>
    /\ chatView = [embedding |-> "none", answered |-> FALSE, records |-> 0,
                   response |-> Response(FALSE, <<>>),
                   replied |-> FALSE, reply |-> <<>>]

InitProgram == ProgramAtStart /\ NoChunkCall

\* The whole script, crawl(rootNode); chat("question"), on a site of one
\* page under the root.
Init ==
    /\ web = [rootHrefs |-> SmallSiteHrefs, pageHrefs |-> SmallSiteHrefs,
              contents |-> Contents \cup {[head |-> <<"h">>, body |-> <<" ">>]}]
    /\ InitProgram

Next == StartCrawl \/ StartChat \/ CrawlStep \/ ChatStep

Spec == Init /\ [][Next]_vars

\* crawl(rootNode) alone: on a site of two pages under the root, on a
\* root page with anchors of every kind over pages that link nowhere, or on
\* a site whose root links to A and C, every other page to B.
CrawlWebs ==
    { [rootHrefs |-> SiteHrefs, pageHrefs |-> SiteHrefs, contents |-> Contents],
      [rootHrefs |-> Hrefs, pageHrefs |-> {},
       contents |-> {[head |-> <<"h">>, body |-> BodyText]}],
      [rootHrefs |-> {<<"/a">>, <<"/c">>}, pageHrefs |-> {<<"/b">>},
       contents |-> {[head |-> <<"h">>, body |-> BodyText]}] }

InitCrawl == web \in CrawlWebs /\ InitProgram

NextCrawl == StartCrawl \/ CrawlStep

SpecCrawl == InitCrawl /\ [][NextCrawl]_vars

\* chunkText(text, size) called on its own, on every text of up to
\* MaxTextLen characters and on an absent text, with sizes from -1 up.
Chars == {"a", "b"} \cup Whitespace
Texts == {Undefined} \cup UNION { [1..n -> Chars] : n \in 0..MaxTextLen }
Sizes == (0 - 1)..MaxChunkSize

InitChunk ==
    /\ web = [rootHrefs |-> {}, pageHrefs |-> {}, contents |-> {}]
    /\ ProgramAtStart
    /\ text \in Texts
    /\ size \in Sizes
    /\ chunks = <<>>
    /\ chunkPc = "called"

ChunkTextReturns ==
    /\ chunkPc = "called"
    /\ chunks' = chunkText(text, size)
    /\ chunkPc' = "returned"
    /\ UNCHANGED <<web, main, crawlVars, chatVars, text, size>>

NextChunk == ChunkTextReturns

SpecChunk == InitChunk /\ [][NextChunk]_vars

\* crawl alone when every external call returns successfully: each awaited
\* operation ends, and ends well.
CrawlStepOk ==
    \/ CrawlFetchDone
    \/ CrawlHeadEmbedDone
    \/ CrawlHeadCollDone
    \/ CrawlHeadAddDone
    \/ CrawlChunkEmbedDone
    \/ CrawlChunkCollDone
    \/ CrawlChunkAddDone

NextCrawlOk == StartCrawl \/ CrawlStepOk

\* The sites of the link graphs: two pages under the root, every page
\* linking to any of the two; and root -> {A, C}, every other page -> B.
LinkGraphWebs ==
    { [rootHrefs |-> SiteHrefs, pageHrefs |-> SiteHrefs,
       contents |-> {[head |-> <<"h">>, body |-> BodyText]}],
      [rootHrefs |-> {<<"/a">>, <<"/c">>}, pageHrefs |-> {<<"/b">>},
       contents |-> {[head |-> <<"h">>, body |-> BodyText]}] }

InitCrawlLive == web \in LinkGraphWebs /\ InitProgram

SpecCrawlLive == InitCrawlLive /\ [][NextCrawlOk]_vars /\ WF_vars(NextCrawlOk)

\* crawl(node, visited) called on any node with any visited set over the
\* pages of the site.
SiteUrls == { BASE_URL, BASE_URL \o <<"/a">>, BASE_URL \o <<"/b">> }

InitCall ==
    /\ web = [rootHrefs |-> SiteHrefs, pageHrefs |-> SiteHrefs,
              contents |-> {[head |-> <<"h">>, body |-> BodyText]}]
    /\ main = "call"
    /\ visited \in SUBSET SiteUrls
    /\ \E url \in SiteUrls : nodes = <<[url |-> url, parent |-> 0]>>
    /\ stack = <<>>
    /\ crawlState = "none"
    /\ db = <<>>
    /\ crawlLog = <<>>
    /\ scraped = [url |-> <<>>, anchors |-> <<>>, links |-> <<>>]
    /\ pages = <<>>
    /\ chatPc = "none"
    /\ chatOut = <<>>
    /\ chatLog = <<>>
    /\ chatView = [embedding |-> "none", answered |-> FALSE, records |-> 0,
                   response |-> Response(FALSE, <<>>),
                   replied |-> FALSE, reply |-> <<>>]
    /\ NoChunkCall

\* The call runs up to its first await: it returns at once on a visited
\* node, and else marks the url and fetches the page.
CrawlCall ==
    /\ main = "call"
    /\ main' = "crawlCalled"
    /\ IF HasVisited(visited, nodes[1].url)
       THEN /\ crawlState' = "fulfilled"
            /\ UNCHANGED <<visited, stack, crawlLog>>
       ELSE /\ visited' = MarkVisited(visited, nodes[1].url)
            /\ stack' = <<NewFrame(1, nodes[1].url)>>
            /\ crawlLog' = <<Ev("start", "fetch", nodes[1].url, 0)>>
            /\ crawlState' = "pending"
    /\ UNCHANGED <<web, nodes, db, scraped, pages, chatVars, chunkVars>>

NextCall == CrawlCall \/ CrawlStep

SpecCall == InitCall /\ [][NextCall]_vars

\* crawl(rootNode) on a single page without in-scope links, its body any
\* text; or chunkText called on its own while the site does not answer.
PageWeb ==
    [rootHrefs |-> { <<"https:", "//", "other.example", "/x">> },
     pageHrefs |-> {},
     contents |-> { [head |-> <<"h">>, body |-> t] : t \in Texts }]

InitPage == (web = PageWeb /\ InitProgram) \/ InitChunk

NextPage == NextCrawl \/ NextChunk

SpecPage == InitPage /\ [][NextPage]_vars

\* ================================================================ claims
Last(q) == q[Len(q)]
PageA == BASE_URL \o <<"/a">>
PageB == BASE_URL \o <<"/b">>
PageC == BASE_URL \o <<"/c">>

\* The positions of crawlLog at which a fetch was issued.
FetchStarts == { i \in 1..Len(crawlLog) :
                    crawlLog[i].ev = "start" /\ crawlLog[i].op = "fetch" }

\* ---------------------------------------------------------------- C1
\* C1: during a crawl no URL is fetched more than once: a URL is in the
\* visited set by the time its fetch is issued, and every visited URL has
\* exactly one fetch.
C1_NoUrlFetchedTwice ==
    /\ \A i, j \in FetchStarts : crawlLog[i].url = crawlLog[j].url => i = j
    /\ \A i \in FetchStarts : crawlLog[i].url \in visited
    /\ \A u \in visited : \E i \in FetchStarts : crawlLog[i].url = u

\* The crawl has ended, three pages were fetched, and the page scraped
\* last links to itself and to a page fetched before it (a cycle).
C1_Witness ==
    /\ crawlState = "fulfilled"
    /\ Cardinality(FetchStarts) = 3
    /\ scraped.url = PageB
    /\ scraped.links = <<PageB, PageA>>

\* ---------------------------------------------------------------- C3
\* C3: a failed fetch or embedding request of crawl is the last thing the
\* traversal does: the root call is rejected, no call stays pending, and
\* no operation is started after it.
C3_FailureEndsTraversal ==
    \A i \in 1..Len(crawlLog) :
        crawlLog[i].ev = "fail" =>
            /\ i = Len(crawlLog)
            /\ crawlState = "rejected"
            /\ stack = <<>>

\* The embedding of a chunk of page A failed while the root page's second
\* link, B, was still to be visited.
C3_Witness ==
    /\ crawlLog # <<>>
    /\ Last(crawlLog) = Ev("fail", "embed", PageA, 1)
    /\ crawlState = "rejected"
    /\ Len(nodes) = 2
    /\ PageB \notin visited

\* ---------------------------------------------------------------- C4
\* Event e is in crawlLog before position i.
Before(e, i) == \E j \in 1..(i - 1) : crawlLog[j] = e

\* The urls of the children of node n, in creation order.
ChildUrls(n) ==
    LET idx == SelectSeq([i \in 1..Len(nodes) |-> i], LAMBDA i : nodes[i].parent = n)
    IN [i \in 1..Len(idx) |-> nodes[idx[i]].url]

\* The position of x in the duplicate-free sequence q, 0 when absent.
IndexIn(q, x) == IF \E i \in 1..Len(q) : q[i] = x
                 THEN CHOOSE i \in 1..Len(q) : q[i] = x ELSE 0

\* The urls whose fetch was issued, in order.
FetchOrder ==
    LET st == SelectSeq(crawlLog, LAMBDA e : e.ev = "start" /\ e.op = "fetch")
    IN [i \in 1..Len(st) |-> st[i].url]

\* C4: for every node the head embedding and the head write end before a
\* chunk embedding starts; the chunks are embedded and written in chunk
\* order; all of them are written before crawl recurses into a child; and
\* the children are visited in the order of the links on the page.
C4_OrderWithinNode ==
    /\ \A i \in 1..Len(crawlLog) :
          LET e == crawlLog[i]
          IN /\ (e.ev = "start" /\ e.op = "embed" /\ e.k >= 1) =>
                    /\ Before(Ev("end", "embed", e.url, 0), i)
                    /\ Before(Ev("end", "add", e.url, 0), i)
                    /\ e.k > 1 => Before(Ev("end", "add", e.url, e.k - 1), i)
             /\ (e.ev = "start" /\ e.op = "add") =>
                    Before(Ev("end", "embed", e.url, e.k), i)
    /\ \A d \in 1..Len(stack) :
          LET f == stack[d]
              kids == ChildUrls(f.node)
          IN /\ d < Len(stack) =>
                    /\ f.chunks = chunkText(f.body, CrawlChunkSize)
                    /\ \A k \in 0..Len(f.chunks) :
                          \E j \in 1..Len(crawlLog) : crawlLog[j] = Ev("end", "add", f.url, k)
                    /\ Len(kids) >= 1 /\ Last(kids) = stack[d + 1].url
             /\ \A a \in 1..Len(kids) :
                    /\ IndexIn(f.links, kids[a]) \in 1..f.li
                    /\ \A b \in 1..(a - 1) :
                          IndexIn(f.links, kids[b]) < IndexIn(f.links, kids[a])
    /\ \A i, j \in 1..Len(crawlLog) :
          (/\ i < j
           /\ crawlLog[i].ev = "start" /\ crawlLog[i].op = "fetch"
           /\ \E c \in 2..Len(nodes) :
                 /\ nodes[c].url = crawlLog[i].url
                 /\ nodes[nodes[c].parent].url = crawlLog[j].url)
          => crawlLog[j].ev # "start"
    /\ FetchOrder = [i \in 1..Len(nodes) |-> nodes[i].url]

\* The root page has two chunks and the links A, B; A was crawled and B,
\* the second child, is crawled now, its own second chunk being written.
C4_Witness ==
    /\ Len(stack) = 2
    /\ Len(stack[1].chunks) = 2
    /\ stack[1].links = <<PageA, PageB>>
    /\ ChildUrls(1) = <<PageA, PageB>>
    /\ stack[2].pc = "chunkAdd" /\ stack[2].ci = 2

\* --------------------------------------------------------------- C10
\* The two scope conditions on a link.
Scoped(l) ==
    /\ ParseAbsolute(l).valid
    /\ ParseAbsolute(l).hostname = BASE_DOMAIN
    /\ IsPrefix(BASE_URL, l)

\* An href that is missing, empty, "/", or starts with "#".
Discarded(h) == h = Undefined \/ h = <<>> \/ h = <<"/">> \/ h[1] = "#top"

\* C10: every link scrapeWebpage returns is in scope and is the resolution
\* of an anchor whose href is not missing, empty, "/" or a fragment; and
\* crawl fetches, besides the root, only links in scope.
C10_LinksInScope ==
    /\ \A k \in 1..Len(scraped.links) :
          /\ Scoped(scraped.links[k])
          /\ \E a \in 1..Len(scraped.anchors) :
                /\ ~Discarded(scraped.anchors[a])
                /\ NewURL(scraped.anchors[a], scraped.url).valid
                /\ Href(NewURL(scraped.anchors[a], scraped.url)) = scraped.links[k]
    /\ \A d \in 1..Len(stack) : \A k \in 1..Len(stack[d].links) : Scoped(stack[d].links[k])
    /\ \A i \in FetchStarts : crawlLog[i].url = BASE_URL \/ Scoped(crawlLog[i].url)

\* The root page carried a link of the right host outside the base URL and
\* the link "/a"; only the second was returned, and it is being fetched.
C10_Witness ==
    /\ scraped.url = BASE_URL
    /\ scraped.anchors = << <<"http:", "//", "piyushgarg.dev", "/a">>, <<"/a">> >>
    /\ scraped.links = <<PageA>>
    /\ crawlLog # <<>> /\ Last(crawlLog) = Ev("start", "fetch", PageA, 0)

\* ---------------------------------------------------------------- C2
\* The network operations awaited: the one of the running crawl call and
\* the one of chat.
InFlight ==
    (IF Running THEN {[task |-> "crawl", op |-> Awaited(Top(stack)).op]} ELSE {})
    \cup
    (IF chatPc \in {"embed", "getOrCreateCollection", "query", "completion"}
     THEN {[task |-> "chat", op |-> chatPc]} ELSE {})

\* C2: in every state of a program run at most one network operation is
\* in flight.
C2_AtMostOneInFlight == Cardinality(InFlight) <= 1

\* ---------------------------------------------------------------- C5
\* The requests chat sent of the given kinds.
ChatSent(ops) == { i \in 1..Len(chatLog) : chatLog[i].op \in ops }

\* C5: a failure of the index access or of the completion call never
\* leaves chat as an unhandled failure: chat is not rejected once it has
\* turned to the index.
C5_IndexFailuresCaught ==
    ~(chatPc = "rejected" /\ ChatSent({"getOrCreateCollection", "query", "chat"}) # {})

\* ---------------------------------------------------------------- C6
\* C6: when the embedding of the question fails or returns nothing, chat
\* reports an error and returns, having sent no index request and no
\* completion request.
C6_EmbeddingFailureReported ==
    chatView.embedding \in {"threw", "nothing"} =>
        /\ chatPc = "returned"
        /\ chatOut = <<[level |-> "error", msg |-> <<"embeddings">>]>>
        /\ ChatSent({"getOrCreateCollection", "query", "chat"}) = {}

\* ---------------------------------------------------------------- C7
\* C7: when the index query of chat is answered from an index without
\* records, chat prints the "no data" line and returns: no prompt is sent
\* to the completion service and no error is printed.
C7_EmptyIndexGivesNoData ==
    (chatView.answered /\ chatView.records = 0) =>
        /\ chatPc = "returned"
        /\ chatOut = <<[level |-> "log", msg |-> <<"no data">>]>>
        /\ ChatSent({"chat"}) = {}

\* ---------------------------------------------------------------- C8
RECURSIVE WordsFrom(_, _, _, _)
\* The words of s: its maximal runs of non-whitespace characters.
WordsFrom(s, i, cur, acc) ==
    IF i > Len(s) THEN (IF cur = <<>> THEN acc ELSE Append(acc, cur))
    ELSE IF s[i] \in Whitespace
         THEN WordsFrom(s, i + 1, <<>>, IF cur = <<>> THEN acc ELSE Append(acc, cur))
         ELSE WordsFrom(s, i + 1, Append(cur, s[i]), acc)

WordsOf(s) == WordsFrom(s, 1, <<>>, <<>>)

RECURSIVE WordsOfAll(_)
WordsOfAll(cs) == IF cs = <<>> THEN <<>> ELSE WordsOf(cs[1]) \o WordsOfAll(Tail(cs))

\* C8: for a text and a size > 0 the words of the chunks, in order, are
\* the words of the text; every chunk but the last has exactly size words
\* and the last has between 1 and size.
C8_LosslessFixedSize ==
    (chunkPc = "returned" /\ ~Falsy(text) /\ size > 0) =>
        /\ WordsOfAll(chunks) = WordsOf(text)
        /\ \A i \in 1..Len(chunks) :
              IF i < Len(chunks) THEN Len(WordsOf(chunks[i])) = size
              ELSE Len(WordsOf(chunks[i])) \in 1..size

\* ---------------------------------------------------------------- C9
\* C9: no returned chunk is the empty string or holds an empty word (a
\* chunk neither starts nor ends with whitespace, nor has two separators
\* in a row).
C9_NoEmptyWords ==
    chunkPc = "returned" =>
        \A i \in 1..Len(chunks) :
            LET c == chunks[i]
            IN /\ c # <<>>
               /\ c[1] \notin Whitespace
               /\ c[Len(c)] \notin Whitespace
               /\ \A j \in 1..(Len(c) - 1) :
                     ~(c[j] \in Whitespace /\ c[j + 1] \in Whitespace)

\* --------------------------------------------------------------- C11
\* The words of a page body; an absent body has none.
BodyWords(body) == IF body = Undefined THEN <<>> ELSE WordsOf(body)

CeilDiv(n, d) == (n + d - 1) \div d

\* C11: the crawl of a single page without in-scope links writes exactly
\* 1 + ceil(len(bodyWords) / chunkSize) records: the head record, its body
\* empty, then one per chunk, all with the page's url as id.
C11_WritesOfSinglePage ==
    (crawlState = "fulfilled" /\ Len(pages) = 1 /\ pages[1].links = <<>>) =>
        /\ Len(db) = 1 + CeilDiv(Len(BodyWords(pages[1].body)), CrawlChunkSize)
        /\ db[1].metadata.body = <<>>
        /\ \A i \in 1..Len(db) : db[i].id = pages[1].url

\* --------------------------------------------------------------- C14
\* C14: chunkText returns no chunk for a size <= 0 whatever the text, and
\* for an empty or absent text whatever the size; a page whose body is
\* missing gets its head record and no chunk record.
C14_NoChunksWithoutInput ==
    /\ (chunkPc = "returned" /\ (size <= 0 \/ text = Undefined \/ text = <<>>)) =>
            chunks = <<>>
    /\ \A p \in 1..Len(pages) :
          (pages[p].body = Undefined \/ pages[p].body = <<>>) =>
              \A i \in 1..Len(db) :
                  db[i].id = pages[p].url => db[i].metadata.body = <<>>
    /\ (crawlState = "fulfilled" /\ Len(pages) = 1
           /\ (pages[1].body = Undefined \/ pages[1].body = <<>>)) => Len(db) = 1

\* The crawl of a page without body has ended: one record is stored.
C14_Witness ==
    /\ crawlState = "fulfilled"
    /\ Len(pages) = 1 /\ pages[1].body = Undefined
    /\ Len(db) = 1

\* --------------------------------------------------------------- C12
\* An href that is examined and whose resolution against base fails.
Malformed(h, base) == ~Discarded(h) /\ ~NewURL(h, base).valid

\* C12: when a page just scraped has a malformed href, every other anchor
\* of the page, before or after it, that resolves into scope is among the
\* links returned, and the scrape has returned them to crawl; no crawl is
\* rejected without a failed network operation; and a crawl that ends has
\* fetched every link of every page on which a resolution failed.
C12_MalformedHrefNotFatal ==
    /\ (\E a \in 1..Len(scraped.anchors) : Malformed(scraped.anchors[a], scraped.url)) =>
          /\ \A b \in 1..Len(scraped.anchors) :
                (/\ ~Discarded(scraped.anchors[b])
                 /\ NewURL(scraped.anchors[b], scraped.url).valid
                 /\ Scoped(Href(NewURL(scraped.anchors[b], scraped.url))))
                => \E k \in 1..Len(scraped.links) :
                       scraped.links[k] = Href(NewURL(scraped.anchors[b], scraped.url))
          /\ \E i \in 1..Len(crawlLog) : crawlLog[i] = Ev("end", "fetch", scraped.url, 0)
          /\ \E p \in 1..Len(pages) :
                /\ pages[p].url = scraped.url /\ pages[p].threw
                /\ pages[p].links = scraped.links
    /\ \A p \in 1..Len(pages) :
          (pages[p].threw /\ crawlState = "fulfilled") =>
              \A k \in 1..Len(pages[p].links) :
                  \E i \in FetchStarts : crawlLog[i].url = pages[p].links[k]
    /\ crawlState = "rejected" => (crawlLog # <<>> /\ Last(crawlLog).ev = "fail")

\* The root page's first anchor was malformed and its second was "/a":
\* page A was returned as a link, and crawl is fetching it.
C12_Witness ==
    /\ Len(pages) = 1 /\ pages[1].threw
    /\ scraped.url = BASE_URL
    /\ scraped.anchors = << <<"https:", "//">>, <<"/a">> >>
    /\ scraped.links = <<PageA>>
    /\ \E i \in FetchStarts : crawlLog[i].url = PageA

\* --------------------------------------------------------------- C13
\* A fetch is issued in this step: a call of crawl got past its visited check.
VisitStep ==
    /\ crawlLog' # crawlLog
    /\ Last(crawlLog').ev = "start" /\ Last(crawlLog').op = "fetch"

\* C13: when every external call returns successfully the root call of
\* crawl eventually completes, on every site of the model, those with
\* self-links and cycles included; at every visit that is not skipped the
\* visited set strictly grows, by the URL visited, and never shrinks.
C13_CrawlCompletes ==
    /\ <>(crawlState = "fulfilled")
    /\ [][/\ visited \subseteq visited'
          /\ VisitStep => /\ Last(crawlLog').url \notin visited
                          /\ visited' = visited \cup {Last(crawlLog').url}]_vars

\* The crawl of a site with a cycle has completed: page A links to itself
\* and to B, page B links to itself and back to A.
C13_Witness ==
    /\ crawlState = "fulfilled"
    /\ visited = {BASE_URL, PageA, PageB}
    /\ Len(pages) = 3
    /\ pages[2].url = PageA /\ pages[2].links = <<PageA, PageB>>
    /\ pages[3].url = PageB /\ pages[3].links = <<PageB, PageA>>

\* --------------------------------------------------------------- C15
\* Node a is node n or one of its ancestors in the tree of TreeNodes.
RECURSIVE IsAncestor(_, _)
IsAncestor(a, n) ==
    IF n = a THEN TRUE
    ELSE IF n = 0 THEN FALSE
    ELSE IsAncestor(a, nodes[n].parent)

Subtree(c) == { n \in 1..Len(nodes) : IsAncestor(c, n) }

\* The page scraped at url, as a one-element set (empty before its fetch ends).
PageOf(url) == { pages[p] : p \in { q \in 1..Len(pages) : pages[q].url = url } }

\* Before position i of crawlLog the page at url was fetched and its head
\* and every chunk of its body were written.
IndexedBefore(url, i) ==
    /\ Before(Ev("end", "fetch", url, 0), i)
    /\ \A pg \in PageOf(url) :
          \A k \in 0..Len(chunkText(pg.body, CrawlChunkSize)) :
              Before(Ev("end", "add", url, k), i)

\* C15: when the fetch of a child is issued, every node in the subtree of
\* each earlier sibling was created, fetched and indexed, and nothing of
\* that subtree happens afterwards; and a link of a page that was visited
\* inside the subtree of an earlier sibling gets no node under that page.
C15_DepthFirst ==
    /\ \A c1, c2 \in 2..Len(nodes) :
          (c1 < c2 /\ nodes[c1].parent = nodes[c2].parent) =>
              \A i \in FetchStarts :
                  crawlLog[i].url = nodes[c2].url =>
                      \A n \in Subtree(c1) :
                          /\ n < c2
                          /\ IndexedBefore(nodes[n].url, i)
                          /\ \A j \in i..Len(crawlLog) : crawlLog[j].url # nodes[n].url
    /\ \A c \in 2..Len(nodes) : \A m \in Subtree(c) \ {c} :
          \A c2 \in 2..Len(nodes) :
              nodes[c2].parent = nodes[c].parent => nodes[c2].url # nodes[m].url

\* The root links to A and C, and A and C link to B: B was crawled under
\* A, before C; C passed over its link to B, and the crawl has ended.
C15_Witness ==
    /\ crawlState = "fulfilled"
    /\ Len(pages) = 4
    /\ pages[1].links = <<PageA, PageC>>
    /\ pages[2].url = PageA /\ pages[2].links = <<PageB>>
    /\ pages[3].url = PageB
    /\ pages[4].url = PageC /\ pages[4].links = <<PageB>>
    /\ nodes = << [url |-> BASE_URL, parent |-> 0],
                  [url |-> PageA, parent |-> 1],
                  [url |-> PageB, parent |-> 2],
                  [url |-> PageC, parent |-> 1] >>

\* --------------------------------------------------------------- C16
\* C16: crawl called on a node whose url is in the visited set returns at
\* once: it fetches nothing, embeds nothing, writes no record, creates no
\* node and leaves the visited set as it was; nothing happens afterwards.
C16_VisitedNodeIsNoOp ==
    /\ [][(main = "call" /\ nodes[1].url \in visited) =>
             /\ UNCHANGED <<visited, nodes, db, crawlLog, stack, pages>>
             /\ crawlState' = "fulfilled"]_vars
    /\ []((main = "crawlCalled" /\ crawlLog = <<>>) =>
             /\ crawlState = "fulfilled" /\ stack = <<>>
             /\ db = <<>> /\ pages = <<>> /\ Len(nodes) = 1)

\* crawl has returned from a call on page A with A and B visited before.
C16_Witness ==
    /\ main = "crawlCalled"
    /\ crawlState = "fulfilled"
    /\ nodes = <<[url |-> PageA, parent |-> 0]>>
    /\ visited = {PageA, PageB}
    /\ crawlLog = <<>>

\* --------------------------------------------------------------- C17
\* C17: the TreeNodes form a tree: no two nodes have the same url, the
\* root has no parent and every other node exactly one, created before it,
\* on whose page its url is a link; and a node is created only for a link
\* that is not in the visited set at that moment.
C17_CrawlStructureIsTree ==
    /\ []( /\ \A i, j \in 1..Len(nodes) : nodes[i].url = nodes[j].url => i = j
           /\ \A c \in 1..Len(nodes) :
                 IF c = 1 THEN nodes[c].parent = 0 /\ nodes[c].url = BASE_URL
                 ELSE /\ nodes[c].parent \in 1..(c - 1)
                      /\ \E pg \in PageOf(nodes[nodes[c].parent].url) :
                            \E k \in 1..Len(pg.links) : pg.links[k] = nodes[c].url )
    /\ [][ /\ Len(nodes') >= Len(nodes)
           /\ \A c \in 1..Len(nodes) : nodes'[c] = nodes[c]
           /\ \A c \in (Len(nodes) + 1)..Len(nodes') :
                 nodes'[c].url \notin visited ]_vars

\* The root links to A and B, A to B and itself, B to A and itself, and
\* the crawl has ended: there are three nodes, B a child of A alone.
C17_Witness ==
    /\ crawlState = "fulfilled"
    /\ Len(pages) = 3
    /\ pages[1].links = <<PageA, PageB>>
    /\ pages[2].url = PageA /\ pages[2].links = <<PageB, PageA>>
    /\ pages[3].url = PageB /\ pages[3].links = <<PageA, PageB>>
    /\ nodes = << [url |-> BASE_URL, parent |-> 0],
                  [url |-> PageA, parent |-> 1],
                  [url |-> PageB, parent |-> 2] >>

\* --------------------------------------------------------------- C18
\* A string that is empty or holds whitespace only.
Blank(s) == \A i \in 1..Len(s) : s[i] \in {" ", "\n"}

\* The completion requests chat has sent.
CompletionsSent == SelectSeq(chatLog, LAMBDA e : e.op = "chat")

\* C18: when the index query has answered with one record, chat has sent
\* exactly one completion request, its one user message made of the
\* question, the record's url and the record's body, each as it is and
\* left out when blank; and the text of the first content item of a reply
\* is what chat prints, and all it prints.
C18_PromptFromOneRecord ==
    (/\ chatView.answered /\ chatView.response.present
     /\ Len(chatView.response.metadatas) = 1
     /\ Len(chatView.response.metadatas[1]) = 1) =>
        LET m == chatView.response.metadatas[1][1]
        IN /\ Len(CompletionsSent) = 1
           /\ CompletionsSent[1].arg =
                  [query |-> Question,
                   url |-> IF Blank(m.url) THEN <<>> ELSE m.url,
                   context |-> IF Blank(m.body) THEN <<>> ELSE m.body]
           /\ (chatView.replied /\ chatView.reply # <<>>) =>
                  chatOut = <<[level |-> "log", msg |-> <<chatView.reply[1]>>]>>

\* The query returned a record whose body is one space, and the reply to
\* the prompt built from it was printed.
C18_Witness ==
    /\ chatView.answered /\ chatView.response.present
    /\ Len(chatView.response.metadatas) = 1
    /\ Len(chatView.response.metadatas[1]) = 1
    /\ chatView.response.metadatas[1][1].body = <<" ">>
    /\ chatView.replied
    /\ chatOut = <<[level |-> "log", msg |-> <<"t1">>]>>

\* --------------------------------------------------------------- C19
\* The urls whose fetch was issued.
Fetched == { crawlLog[i].url : i \in FetchStarts }

\* The in-scope links of the page at url, as the site served them.
LinksOf(url) == UNION { { pg.links[k] : k \in 1..Len(pg.links) } : pg \in PageOf(url) }

\* The urls reachable from the urls of S along in-scope links.
RECURSIVE Reach(_)
Reach(S) ==
    LET T == S \cup UNION { LinksOf(u) : u \in S }
    IN IF T = S THEN S ELSE Reach(T)

\* C19: when the root call of crawl has completed (no call failed), the
\* urls fetched are exactly the seed and the urls reachable from it along
\* in-scope links, each was scraped once, and for each the first record
\* stored under its id is its head record, without body.
C19_FetchedIsReachable ==
    crawlState = "fulfilled" =>
        /\ Fetched = Reach({BASE_URL})
        /\ visited = Fetched
        /\ \A u \in Fetched :
              /\ Cardinality({ p \in 1..Len(pages) : pages[p].url = u }) = 1
              /\ \E i \in 1..Len(db) :
                    /\ db[i].id = u /\ db[i].metadata.url = u
                    /\ db[i].metadata.body = <<>>
                    /\ \A j \in 1..(i - 1) : db[j].id # u

\* The root links to A alone and A to itself and then to B: all three were
\* fetched, and the crawl has ended.
C19_Witness ==
    /\ crawlState = "fulfilled"
    /\ Len(pages) = 3
    /\ pages[1].links = <<PageA>>
    /\ pages[2].links = <<PageA, PageB>>
    /\ pages[3].url = PageB /\ pages[3].links = <<>>
    /\ Fetched = {BASE_URL, PageA, PageB}

\* --------------------------------------------------------------- C20
\* C20: in a program run chat sends its index query only once the crawl is
\* no longer in progress, all of its records written.
C20_QueryAfterCrawl ==
    ChatSent({"query"}) # {} => crawlState \in {"fulfilled", "rejected"}

====
